---- MODULE Spec2Model ----
(***************************************************************************)
(* Model of src/allocator.py: class ResourceAllocator.                     *)
(*                                                                         *)
(* Quantities are integers.  The configurations drawn in Init use          *)
(* overhead factors that are multiples of 24, so the accrual               *)
(* (current_load * overhead_factor) / 24 of line 64 is an exact integer    *)
(* and the float arithmetic of the program is exact on every value the     *)
(* model reaches.  Dates are day numbers; timedelta(days=15) adds 15.      *)
(* An absent optional value (dict.get returning None) is the empty         *)
(* sequence, a present one is a one-element sequence.                      *)
(***************************************************************************)
EXTENDS Integers, Sequences, FiniteSets, TLC

\* ------------------------------------------------------------------ bounds
\* longest node list drawn (lists longer than two come from TieSpecs)
MaxNodes == 3
\* largest initial current_load of an ordinary node
MaxBalance == 2
\* the larger of the two positive values of system_capacity_per_cycle
MaxCapacity == 3
\* a cycle is modelled only while every current_load stays within MaxLoad
MaxLoad == 600
\* days that may pass between two runs of the program
MaxGap == 1
\* the start_date a configuration file gives, when it gives one
GivenStart == 45

\* ------------------------------------------------------- program constants
CyclesPerYear == 24
DaysPerCycle == 15
SafetyBound == 480

\* ------------------------------------------------------------------ helpers
Min(a, b) == IF a <= b THEN a ELSE b

RECURSIVE SumSeq(_)
SumSeq(s) == IF s = <<>> THEN 0 ELSE Head(s) + SumSeq(Tail(s))

RECURSIVE Reverse(_)
Reverse(s) == IF s = <<>> THEN <<>> ELSE Append(Reverse(Tail(s)), Head(s))

Loads(ns) == [i \in 1..Len(ns) |-> ns[i].current_load]

Zeros(n) == [i \in 1..n |-> 0]

\* has the optional value v (a sequence of at most one element) been given
Given(v) == Len(v) > 0

\* --------------------------------------------------- load_configuration
\* list.sort is stable: an element is placed after every element whose key
\* is less than or equal to its own that came before it.
RECURSIVE InsertAscending(_, _)
InsertAscending(n, s) ==
    IF s = <<>> THEN <<n>>
    ELSE IF n.overhead_factor < Head(s).overhead_factor
         THEN <<n>> \o s
         ELSE <<Head(s)>> \o InsertAscending(n, Tail(s))

RECURSIVE StableAscending(_)
StableAscending(s) ==
    IF s = <<>> THEN <<>>
    ELSE InsertAscending(s[Len(s)], StableAscending(SubSeq(s, 1, Len(s) - 1)))

\* a sort that orders the keys correctly but reverses the order of ties
SortReversingTies(s) == Reverse(StableAscending(s))

\* nodes.sort(key=overhead_factor, reverse=True): list.sort reverses the
\* list, sorts it ascending (stably) and reverses the result, which keeps
\* equal keys in their original order.
SortNodes(s) == Reverse(StableAscending(Reverse(s)))

\* ------------------------------------------------------------ run_simulation
\* every node is due in every cycle
AlwaysDue(node, cyc) == TRUE

\* line 57-59
IsPaymentDue(node, cyc) == ~(node.cycle_mode = "MONTHLY" /\ cyc % 2 # 0)

\* line 64; exact on the configurations of Init (factors are multiples of 24)
Interest(node) == (node.current_load * node.overhead_factor) \div CyclesPerYear

\* a minimum payment that is not capped at the load
UncappedMinimum(load, min_pay) == min_pay

\* line 71
MinimumPayment(load, min_pay) == Min(load, min_pay)

\* line 81
ExtraAllowed(node, cyc) == node.cycle_mode = "SEMI_MONTHLY" \/ cyc % 2 = 0

\* an avalanche payment that is not capped at the load
UncappedExtra(load, rem) == rem

\* an avalanche payment of the whole load, whatever capacity is left
WholeLoad(load, rem) == load

\* line 82
ExtraPayment(load, rem) == Min(load, rem)

\* lines 61-73 for node i, which owes something and is due;
\* acc = [nodes, rem, interest, min_paid]
PayDue(acc, i) ==
    LET node == acc.nodes[i]
        interest == Interest(node)
        grown == node.current_load + interest
        payment == MinimumPayment(grown, node.min_throughput)
    IN [nodes |-> [acc.nodes EXCEPT ![i].current_load = grown - payment],
        rem |-> acc.rem - payment,
        interest |-> [acc.interest EXCEPT ![i] = interest],
        min_paid |-> [acc.min_paid EXCEPT ![i] = payment]]

\* the body of the first loop written without the test of lines 51-52 and
\* with the whole min_throughput paid by every due node
DueStepFlat(acc, i, cyc) ==
    IF ~IsPaymentDue(acc.nodes[i], cyc) THEN acc
    ELSE LET node == acc.nodes[i]
             interest == Interest(node)
             grown == node.current_load + interest
             payment == node.min_throughput
         IN [nodes |-> [acc.nodes EXCEPT ![i].current_load = grown - payment],
             rem |-> acc.rem - payment,
             interest |-> [acc.interest EXCEPT ![i] = interest],
             min_paid |-> [acc.min_paid EXCEPT ![i] = payment]]

\* the body of the first loop for node i (lines 51-73)
DueStep(acc, i, cyc) ==
    IF acc.nodes[i].current_load <= 0 \/ ~IsPaymentDue(acc.nodes[i], cyc) THEN acc
    ELSE PayDue(acc, i)

\* the first loop over the nodes (lines 50-73), from node i on.  Each
\* iteration's result is bound as a value before the next iteration reads it.
RECURSIVE DuePass(_, _, _)
DuePass(acc, i, cyc) ==
    IF i > Len(acc.nodes) THEN acc
    ELSE CHOOSE out \in {DuePass(next, i + 1, cyc) : next \in {DueStep(acc, i, cyc)}} : TRUE

\* the nodes in reverse ledger order
LowestFirst(n) == [k \in 1..n |-> n + 1 - k]

\* the order in which "for node in self.nodes" (line 76) visits the ledger
AvalancheOrder(n) == [k \in 1..n |-> k]

\* lines 79-84 for node i; acc = [nodes, rem, extra_paid]
AvalancheStep(acc, i, cyc) ==
    IF acc.nodes[i].current_load > 0 /\ ExtraAllowed(acc.nodes[i], cyc)
    THEN LET payment == ExtraPayment(acc.nodes[i].current_load, acc.rem)
         IN [nodes |-> [acc.nodes EXCEPT ![i].current_load = @ - payment],
             rem |-> acc.rem - payment,
             extra_paid |-> [acc.extra_paid EXCEPT ![i] = payment]]
    ELSE acc

\* the second loop without the break of lines 77-78
RECURSIVE AvalanchePassNoBreak(_, _, _, _)
AvalanchePassNoBreak(acc, order, k, cyc) ==
    IF k > Len(order) THEN acc
    ELSE CHOOSE out \in {AvalanchePassNoBreak(next, order, k + 1, cyc) :
                            next \in {AvalancheStep(acc, order[k], cyc)}} : TRUE

\* the second loop over the nodes (lines 76-84), from position k of the
\* visiting order on, with the break of lines 77-78
RECURSIVE AvalanchePass(_, _, _, _)
AvalanchePass(acc, order, k, cyc) ==
    IF k > Len(order) \/ acc.rem <= 0 THEN acc
    ELSE CHOOSE out \in {AvalanchePass(next, order, k + 1, cyc) :
                            next \in {AvalancheStep(acc, order[k], cyc)}} : TRUE

\* the second loop (lines 75-84) on what the first loop left, and what the
\* iteration did: due = [nodes, rem, interest, min_paid]
AfterDue(due, cyc) ==
    LET n == Len(due.nodes)
        Result(ava) ==
            [nodes |-> ava.nodes, interest |-> due.interest, min_paid |-> due.min_paid,
             after_min |-> due.rem, extra_paid |-> ava.extra_paid, rem |-> ava.rem]
    IN CHOOSE r \in
           {Result(ava) :
               ava \in {AvalanchePass([nodes |-> due.nodes, rem |-> due.rem,
                                       extra_paid |-> Zeros(n)],
                                      AvalancheOrder(n), 1, cyc)}} : TRUE

\* an iteration that turns the ledger around before it works on it
RunCycleReversing(ns, cap, cyc) ==
    CHOOSE r \in
        {AfterDue(due, cyc) :
            due \in {DuePass([nodes |-> Reverse(ns), rem |-> cap,
                              interest |-> Zeros(Len(ns)),
                              min_paid |-> Zeros(Len(ns))], 1, cyc)}} : TRUE

\* one iteration of the while loop on the ledger ns (lines 48-84)
RunCycle(ns, cap, cyc) ==
    CHOOSE r \in
        {AfterDue(due, cyc) :
            due \in {DuePass([nodes |-> ns, rem |-> cap, interest |-> Zeros(Len(ns)),
                              min_paid |-> Zeros(Len(ns))], 1, cyc)}} : TRUE

\* line 43
AnyLoad(ns) == \E i \in 1..Len(ns) : ns[i].current_load > 0

\* ---------------------------------------------------------- _generate_report
\* a verdict that fails the node cleared on its deprecation date
VerdictStrict(node, finish) ==
    IF Given(node.scheduled_deprecation)
    THEN IF node.scheduled_deprecation[1] - finish > 0 THEN "PASS" ELSE "FAIL"
    ELSE "INFO"

\* lines 105-117: one verdict per node
Verdict(node, finish) ==
    IF Given(node.scheduled_deprecation)
    THEN IF node.scheduled_deprecation[1] - finish >= 0 THEN "PASS" ELSE "FAIL"
    ELSE "INFO"

GenerateReport(ns, finish) == [i \in 1..Len(ns) |-> Verdict(ns[i], finish)]

\* ------------------------------------------------------------ configurations
Modes == {"NONE", "SEMI_MONTHLY", "MONTHLY"}
Factors == {0, 24}
MinPays == {0, 1}

Node(l, f, m, c, d) ==
    [current_load |-> l, overhead_factor |-> f, min_throughput |-> m,
     cycle_mode |-> c, scheduled_deprecation |-> d]

\* a node whose minimum payment is exactly its interest: its load never moves
Sustains(n) == n.current_load > 0 /\ n.min_throughput > 0
               /\ n.current_load * n.overhead_factor = n.min_throughput * CyclesPerYear

\* ordinary nodes, without a deprecation date; the nodes that sustain their
\* load run to the safety bound and are drawn apart, in SustainSpecs
DynSpecs == {n \in {Node(l, f, m, c, <<>>) : l \in 0..MaxBalance, f \in Factors,
                                             m \in MinPays, c \in Modes} :
                ~Sustains(n)}

SustainSpecs == {Node(1, 24, 1, c, <<>>) : c \in Modes}

\* nodes that only the avalanche can clear
WaitingSpecs == {Node(1, 0, 0, c, <<>>) : c \in Modes}

\* nodes that differ in their rate only, for ledgers with ties
TieSpecs == {Node(1, f, 0, "SEMI_MONTHLY", <<>>) : f \in Factors}

\* a node that is cleared by its minimum payments in exactly SafetyBound + 1
\* cycles, and one cleared by the capacity in SafetyBound cycles
SlowSpecs == {Node(SafetyBound + 1, 0, 1, "SEMI_MONTHLY", <<>>),
              Node(SafetyBound, 0, 0, "SEMI_MONTHLY", <<>>)}

\* nodes with and without a deprecation date
AuditSpecs == {Node(l, 0, 1, "SEMI_MONTHLY", d) :
                   l \in 0..2, d \in {<<>>, <<GivenStart + 15>>, <<GivenStart + 29>>,
                                       <<GivenStart + 30>>}}

ListsOf(S, lo, hi) == UNION {[1..n -> S] : n \in lo..hi}

\* the nodes of a configuration file: the i-th node of the list has id i
WithIds(list) ==
    [i \in 1..Len(list) |->
        [id |-> i, current_load |-> list[i].current_load,
         overhead_factor |-> list[i].overhead_factor,
         min_throughput |-> list[i].min_throughput,
         cycle_mode |-> list[i].cycle_mode,
         scheduled_deprecation |-> list[i].scheduled_deprecation]]

File(cap, start, list) ==
    [exists |-> TRUE, system_capacity_per_cycle |-> cap, start_date |-> start,
     active_nodes |-> WithIds(list)]

MissingFile ==
    [exists |-> FALSE, system_capacity_per_cycle |-> 0, start_date |-> <<>>,
     active_nodes |-> <<>>]

\* nodes whose minimum payment is more than they owe, even after accrual
CappedSpecs == {Node(1, f, 3, c, <<>>) : f \in Factors, c \in Modes}

\* the ordinary nodes that owe something
OwingSpecs == {n \in DynSpecs : n.current_load > 0}

\* positive capacity: no node, one ordinary node, two ordinary nodes that owe
\* something, or up to MaxNodes tied nodes
AllocatingInputs ==
    {File(cap, <<GivenStart>>, l) :
        cap \in {1, MaxCapacity},
        l \in ListsOf(DynSpecs \cup CappedSpecs, 0, 1) \cup ListsOf(OwingSpecs, 2, 2)
              \cup ListsOf(TieSpecs, 3, MaxNodes)}

\* no capacity for the avalanche: the nodes do not interact
StarvedInputs ==
    {File(cap, <<GivenStart>>, l) :
        cap \in {-1, 0}, l \in ListsOf(DynSpecs \cup SustainSpecs, 0, 1)}

\* the minimum payment of one node uses up the capacity another waits for
ContendedInputs ==
    {File(1, <<GivenStart>>, l) :
        l \in {<<s, w>> : s \in SustainSpecs, w \in WaitingSpecs}
               \cup {<<w, s>> : s \in SustainSpecs, w \in WaitingSpecs}}

SlowInputs ==
    {File(cap, <<GivenStart>>, l) : cap \in {0, 1}, l \in ListsOf(SlowSpecs, 1, 1)}

AuditInputs ==
    {File(1, <<GivenStart>>, l) : l \in ListsOf(AuditSpecs, 1, 2)}

\* no start_date in the file
UndatedInputs ==
    {File(1, <<>>, l) : l \in ListsOf(AuditSpecs, 0, 1)}

Inputs == AllocatingInputs \cup StarvedInputs \cup ContendedInputs \cup SlowInputs
          \cup AuditInputs \cup UndatedInputs \cup {MissingFile}

\* configurations on which no current_load grows from one cycle to the next
Tame(cfg) ==
    \A i \in 1..Len(cfg.active_nodes) :
        Interest(cfg.active_nodes[i]) <= cfg.active_nodes[i].min_throughput

\* ------------------------------------------------------------------- state
VARIABLES
    config,              \* the configuration file on disk
    clock,               \* the day datetime.now() falls on
    run,                 \* which run of the program this is
    first,               \* what the first run produced, once it has ended
    phase,               \* where the program is
    capacity_per_cycle,  \* self.capacity_per_cycle
    start_date,          \* self.start_date
    nodes,               \* self.nodes, the ledger
    history,             \* self.history
    cycle,               \* run_simulation's cycle
    current_date,        \* run_simulation's current_date
    remaining_capacity,  \* remaining_capacity when the last cycle ended
    after_min,           \* remaining_capacity after the last cycle's first loop
    interest,            \* the interest added to each node in the last cycle
    min_paid,            \* the minimum payment of each node in the last cycle
    extra_paid,          \* the avalanche payment to each node in the last cycle
    loaded,              \* each node's current_load when the ledger was loaded
    accrued,             \* the interest added to each node so far
    paid,                \* the payments made to each node so far
    report               \* _generate_report's call: <<>> or <<[finish, verdicts]>>

vars == <<config, clock, run, first, phase, capacity_per_cycle, start_date, nodes,
          history, cycle, current_date, remaining_capacity, after_min, interest,
          min_paid, extra_paid, loaded, accrued, paid, report>>

envVars == <<config, clock, run, first>>
runVars == <<cycle, current_date, remaining_capacity, after_min, interest,
             min_paid, extra_paid, accrued, paid, report>>

EmptyHistory == [dates |-> <<>>, total_load |-> <<>>]

\* __init__ (lines 7-12), with the locals of run_simulation not yet set
Constructed ==
    /\ phase = "CONSTRUCTED"
    /\ capacity_per_cycle = 0
    /\ start_date = clock
    /\ nodes = <<>>
    /\ history = EmptyHistory
    /\ cycle = 0
    /\ current_date = clock
    /\ remaining_capacity = 0
    /\ after_min = 0
    /\ interest = <<>>
    /\ min_paid = <<>>
    /\ extra_paid = <<>>
    /\ loaded = <<>>
    /\ accrued = <<>>
    /\ paid = <<>>
    /\ report = <<>>

Init ==
    /\ config \in Inputs
    /\ clock = 0
    /\ run = 1
    /\ first = <<>>
    /\ Constructed

\* line 21-22: the file's start_date, or today
StartDate(cfg, now) == IF Given(cfg.start_date) THEN cfg.start_date[1] ELSE now

\* load_configuration (lines 14-31)
LoadConfiguration ==
    /\ phase = "CONSTRUCTED"
    /\ phase' = "LOADED"
    /\ IF config.exists
       THEN /\ capacity_per_cycle' = config.system_capacity_per_cycle
            /\ start_date' = StartDate(config, clock)
            /\ nodes' = SortNodes(config.active_nodes)
       ELSE UNCHANGED <<capacity_per_cycle, start_date, nodes>>
    /\ loaded' = Loads(nodes')
    /\ UNCHANGED <<envVars, history, runVars>>

\* the run starts today, whatever the configuration says
WallClockDate(start, now) == now

\* line 35
FirstDate(start, now) == start

\* a loop without the safety break
NoSafetyBreak(c) == FALSE

\* line 92
SafetyBreak(c) == c > SafetyBound

\* where run_simulation is after cycle c has left the ledger ns: the safety
\* break of line 92 comes before the loop test of line 43
PhaseAfter(c, ns) ==
    IF SafetyBreak(c) THEN "ABORTED"
    ELSE IF AnyLoad(ns) THEN "RUNNING" ELSE "COMPLETED"

\* the report is generated whenever run_simulation ends
ReportAtExit(ph, ns, finish) ==
    IF ph # "RUNNING" THEN <<[finish |-> finish, verdicts |-> GenerateReport(ns, finish)]>>
    ELSE <<>>

\* line 96: the report is generated when the loop ends without the break
ReportAt(ph, ns, finish) ==
    IF ph = "COMPLETED" THEN <<[finish |-> finish, verdicts |-> GenerateReport(ns, finish)]>>
    ELSE <<>>

\* a sample is recorded only when the total has moved
RecordChanges(h, date, total) ==
    IF h.total_load # <<>> /\ h.total_load[Len(h.total_load)] = total THEN h
    ELSE [dates |-> Append(h.dates, date), total_load |-> Append(h.total_load, total)]

\* lines 38-40 and 87-89: one sample of the ledger's total load
Record(h, date, total) ==
    [dates |-> Append(h.dates, date), total_load |-> Append(h.total_load, total)]

\* the clock moves a month per cycle
AdvanceMonth(d) == d + 2 * DaysPerCycle

\* line 46
Advance(d) == d + DaysPerCycle

\* run_simulation up to the first loop test (lines 34-43)
BeginSimulation ==
    /\ phase = "LOADED"
    /\ cycle' = 0
    /\ current_date' = FirstDate(start_date, clock)
    /\ history' = Record(history, current_date', SumSeq(Loads(nodes)))
    /\ phase' = IF AnyLoad(nodes) THEN "RUNNING" ELSE "COMPLETED"
    /\ report' = ReportAt(phase', nodes, current_date')
    /\ remaining_capacity' = 0
    /\ after_min' = 0
    /\ interest' = Zeros(Len(nodes))
    /\ min_paid' = Zeros(Len(nodes))
    /\ extra_paid' = Zeros(Len(nodes))
    /\ accrued' = Zeros(Len(nodes))
    /\ paid' = Zeros(Len(nodes))
    /\ UNCHANGED <<envVars, capacity_per_cycle, start_date, nodes, loaded>>

\* one iteration of the while loop and the test that follows it (lines
\* 43-96); r is what the iteration did to the ledger
Cycle ==
    /\ phase = "RUNNING"
    /\ \E r \in {RunCycle(nodes, capacity_per_cycle, cycle + 1)} :
       LET c == cycle + 1
       IN /\ \A i \in 1..Len(nodes) : r.nodes[i].current_load <= MaxLoad
          /\ cycle' = c
          /\ current_date' = Advance(current_date)
          /\ nodes' = r.nodes
          /\ remaining_capacity' = r.rem
          /\ after_min' = r.after_min
          /\ interest' = r.interest
          /\ min_paid' = r.min_paid
          /\ extra_paid' = r.extra_paid
          /\ accrued' = [i \in 1..Len(nodes) |-> accrued[i] + r.interest[i]]
          /\ paid' = [i \in 1..Len(nodes) |-> paid[i] + r.min_paid[i] + r.extra_paid[i]]
          /\ history' = Record(history, current_date', SumSeq(Loads(r.nodes)))
          /\ phase' = PhaseAfter(c, r.nodes)
          /\ report' = ReportAt(phase', r.nodes, current_date')
    /\ UNCHANGED <<envVars, capacity_per_cycle, start_date, loaded>>

Terminal == phase \in {"COMPLETED", "ABORTED"}

\* what a run hands to its caller
Outcome ==
    [phase |-> phase, period_count |-> cycle, total_accrual |-> SumSeq(accrued),
     history |-> history, report |-> report]

\* the program is started again, some days later, on the same file:
\* a new ResourceAllocator is constructed (lines 133, 7-12)
Rerun ==
    /\ Terminal
    /\ run = 1
    /\ run' = 2
    /\ first' = <<Outcome>>
    /\ \E gap \in 1..MaxGap : clock' = clock + gap
    /\ config' = config
    /\ phase' = "CONSTRUCTED"
    /\ capacity_per_cycle' = 0
    /\ start_date' = clock'
    /\ nodes' = <<>>
    /\ history' = EmptyHistory
    /\ cycle' = 0
    /\ current_date' = clock'
    /\ remaining_capacity' = 0
    /\ after_min' = 0
    /\ interest' = <<>>
    /\ min_paid' = <<>>
    /\ extra_paid' = <<>>
    /\ loaded' = <<>>
    /\ accrued' = <<>>
    /\ paid' = <<>>
    /\ report' = <<>>

Next == LoadConfiguration \/ BeginSimulation \/ Cycle

NextTwice == Next \/ Rerun

Spec == Init /\ [][Next]_vars

\* the program runs to its end: __main__ calls load_configuration and
\* run_simulation, and a loop iteration always completes
InitTame == Init /\ Tame(config)

FairSpec == InitTame /\ [][Next]_vars /\ WF_vars(Next)

\* the configurations run twice: all but the two-node ones without dates
TwiceInputs ==
    Inputs \ (ContendedInputs \cup {cfg \in AllocatingInputs : Len(cfg.active_nodes) = 2})

InitTwice == Init /\ config \in TwiceInputs

SpecTwice == InitTwice /\ [][NextTwice]_vars

\* ------------------------------------------------------------------ claims
Started == phase \in {"RUNNING", "COMPLETED", "ABORTED"}

Ledger == 1..Len(nodes)

\* C1: at every period boundary every node's current_load is >= 0, whatever
\* the capacity and the cycle modes are (the configurations of Init have
\* non-negative loads, factors and minimum payments).
C1_BalancesNonNegative == \A i \in Ledger : nodes[i].current_load >= 0

\* a cycle in which a node accrued interest and the avalanche cleared it
C1_Witness ==
    /\ Started
    /\ cycle >= 1
    /\ \E i \in Ledger : /\ interest[i] > 0
                          /\ min_paid[i] > 0
                          /\ extra_paid[i] > 0
                          /\ nodes[i].current_load = 0

\* C2: in a cycle the avalanche pays no node while an earlier node of the
\* ledger still owes something and is allowed extra payment in that cycle;
\* and of two nodes with the same cycle mode, the one with the lower rate
\* gets no avalanche payment in a cycle that leaves the other with a load.
C2_AvalanchePriority ==
    Started =>
        \A i, j \in Ledger :
            /\ (i < j /\ extra_paid[j] > 0)
                   => ~(nodes[i].current_load > 0 /\ ExtraAllowed(nodes[i], cycle))
            /\ (/\ nodes[i].cycle_mode = nodes[j].cycle_mode
                /\ nodes[i].overhead_factor > nodes[j].overhead_factor
                /\ nodes[i].current_load > 0)
                   => extra_paid[j] = 0

\* a cycle whose avalanche cleared the node with the higher rate and went on
\* to pay the node with the lower rate
C2_Witness ==
    \E i, j \in Ledger :
        /\ Started
        /\ i < j
        /\ nodes[i].overhead_factor > nodes[j].overhead_factor
        /\ extra_paid[i] > 0
        /\ extra_paid[j] > 0

\* C3: the engine aborts having processed exactly SafetyBound periods, and
\* processes no period beyond the bound.
C3_AbortsAtBound ==
    /\ cycle <= SafetyBound
    /\ phase = "ABORTED" => cycle = SafetyBound

\* C4: every run leaves RUNNING and ends COMPLETED, with every load <= 0, or
\* ABORTED, past the safety bound; the loop runs SafetyBound + 1 times at most.
C4_Terminates ==
    /\ <>Terminal
    /\ [](phase = "RUNNING" => cycle <= SafetyBound)
    /\ [](phase = "COMPLETED" => \A i \in Ledger : nodes[i].current_load <= 0)
    /\ [](phase = "ABORTED" => cycle > SafetyBound)

\* a run that never clears its ledger has ended at the safety break
C4_Witness == phase = "ABORTED" /\ AnyLoad(nodes) /\ SumSeq(accrued) > 0

\* C5: at every period boundary a node's load is its load at the start plus
\* the interest added to it minus the payments made to it; at COMPLETED the
\* payments to a node add up to its starting load plus its interest.
C5_Conservation ==
    Started =>
        \A i \in Ledger :
            /\ nodes[i].current_load = loaded[i] + accrued[i] - paid[i]
            /\ phase = "COMPLETED" => paid[i] = loaded[i] + accrued[i]

\* a completed run in which a node accrued interest, paid a capped minimum
\* and was paid by the avalanche
C5_Witness ==
    /\ phase = "COMPLETED"
    /\ cycle >= 2
    /\ \E i \in Ledger : accrued[i] > 0 /\ paid[i] > loaded[i]
    /\ \E i \in Ledger : min_paid[i] > 0 /\ min_paid[i] < nodes[i].min_throughput

\* the ledger with every node that has no cycle_mode tagged SEMI_MONTHLY
Tagged(ns) ==
    [i \in 1..Len(ns) |->
        IF ns[i].cycle_mode = "NONE" THEN [ns[i] EXCEPT !.cycle_mode = "SEMI_MONTHLY"]
        ELSE ns[i]]

\* C6: a node without cycle_mode is treated as a SEMI_MONTHLY node in every
\* cycle: from any ledger the run reaches, the next cycle leaves the same
\* loads whether the untagged nodes are tagged SEMI_MONTHLY or not.
C6_DefaultIsEveryPeriod ==
    phase = "RUNNING" =>
        Loads(RunCycle(nodes, capacity_per_cycle, cycle + 1).nodes)
            = Loads(RunCycle(Tagged(nodes), capacity_per_cycle, cycle + 1).nodes)

\* C7: after load_configuration the ledger is a permutation of the nodes of
\* the file, in descending order of overhead_factor, with nodes of equal
\* overhead_factor in the order of the file.
C7_StableDescendingSort ==
    (phase = "LOADED" /\ config.exists) =>
        /\ Len(nodes) = Len(config.active_nodes)
        /\ \A k \in 1..Len(config.active_nodes) :
               \E i \in Ledger : nodes[i] = config.active_nodes[k]
        /\ \A i, j \in Ledger :
               i < j => /\ nodes[i].overhead_factor >= nodes[j].overhead_factor
                        /\ nodes[i].overhead_factor = nodes[j].overhead_factor
                               => nodes[i].id < nodes[j].id

\* a loaded ledger of three nodes that the sort reordered and that has a tie
C7_Witness ==
    /\ phase = "LOADED"
    /\ Len(nodes) >= 3
    /\ nodes # config.active_nodes
    /\ \E i, j \in Ledger :
           i < j /\ nodes[i].overhead_factor = nodes[j].overhead_factor

\* C8: a second run from the same file, with a start_date, produces what the
\* first did: at every period boundary the same history so far, and at its
\* end the same terminal state, period count, total accrual, history and
\* finish date.
C8_Deterministic ==
    (run = 2 /\ Started /\ config.exists /\ Given(config.start_date)) =>
        LET was == first[1] IN
        /\ Len(history.dates) = cycle + 1
        /\ Len(was.history.dates) >= cycle + 1
        /\ history.dates = SubSeq(was.history.dates, 1, cycle + 1)
        /\ history.total_load = SubSeq(was.history.total_load, 1, cycle + 1)
        /\ Terminal => Outcome = was

\* a second run has completed after several cycles, days after the first
C8_Witness ==
    /\ run = 2
    /\ phase = "COMPLETED"
    /\ cycle >= 2
    /\ SumSeq(accrued) > 0
    /\ clock > 0
    /\ Given(config.start_date)

\* C9: a node whose load is 0 when a cycle starts is left at 0 by the cycle,
\* with no interest added, no minimum payment and no avalanche payment.
C9_ClearedNodeUntouched ==
    [][\A i \in Ledger :
          (phase = "RUNNING" /\ nodes[i].current_load = 0) =>
              /\ nodes'[i].current_load = 0
              /\ interest'[i] = 0
              /\ min_paid'[i] = 0
              /\ extra_paid'[i] = 0]_vars

\* a cycle that left a cleared node alone while it paid another node, with
\* capacity to spare
C9_Witness ==
    /\ Started
    /\ cycle >= 2
    /\ remaining_capacity > 0
    /\ \E i, j \in Ledger :
           /\ nodes[i].current_load = 0
           /\ paid[i] > 0
           /\ interest[i] + min_paid[i] + extra_paid[i] = 0
           /\ nodes[i].min_throughput > 0
           /\ extra_paid[j] > 0

\* C10: when a processed period leaves every load <= 0 the engine is
\* COMPLETED and the report is generated, and it is ABORTED only with some
\* load still > 0.
C10_ClearedMeansCompleted ==
    /\ (Started /\ ~AnyLoad(nodes)) => (phase = "COMPLETED" /\ Given(report))
    /\ phase = "ABORTED" => AnyLoad(nodes)

\* C11: when the configuration file is missing the run stops before the
\* simulation: no period is processed, no history sample is recorded, the
\* ledger is not touched and no COMPLETED result is reported.
C11_MissingFileStopsRun ==
    ~config.exists =>
        /\ cycle = 0
        /\ history = EmptyHistory
        /\ nodes = <<>>
        /\ phase # "COMPLETED"
        /\ report = <<>>

\* C12: a period is processed only with a capacity >= 0 and a ledger that had
\* a node with a positive load: with a negative capacity or an empty ledger
\* the engine is never RUNNING, no period is counted and no load changes.
C12_RunsOnlyOnValidInput ==
    /\ (phase = "RUNNING" \/ cycle >= 1) =>
           (capacity_per_cycle >= 0 /\ \E i \in 1..Len(loaded) : loaded[i] > 0)
    /\ ((capacity_per_cycle < 0 \/ nodes = <<>>) /\ phase # "CONSTRUCTED") =>
           Loads(nodes) = loaded

\* C13: the audit report exists exactly when the run is COMPLETED, so never
\* while RUNNING and never after ABORTED; an ABORTED run is final (no step
\* follows it, the loop is not entered again) and differs from a COMPLETED
\* one by its missing report.
C13_ReportOnlyWhenCompleted ==
    /\ [](Given(report) <=> phase = "COMPLETED")
    /\ [][phase # "ABORTED"]_vars

C13_Witness == phase = "ABORTED" /\ report = <<>> /\ cycle > SafetyBound

\* C14: in the report every node has exactly one verdict: PASS exactly when
\* it has a deprecation date and the finish date is on or before it, FAIL
\* exactly when the finish date is after it, INFO exactly when it has none.
C14_VerdictByTargetDate ==
    Given(report) =>
        /\ DOMAIN report[1].verdicts = Ledger
        /\ \A i \in Ledger :
              LET v == report[1].verdicts[i]
                  target == nodes[i].scheduled_deprecation
                  finish == report[1].finish
              IN /\ v \in {"PASS", "FAIL", "INFO"}
                 /\ v = "PASS" <=> (Given(target) /\ finish <= target[1])
                 /\ v = "FAIL" <=> (Given(target) /\ finish > target[1])
                 /\ v = "INFO" <=> ~Given(target)

\* a report with a node cleared on its very deprecation date and a late one
C14_Witness ==
    /\ Given(report)
    /\ \E i, j \in Ledger :
          /\ report[1].verdicts[i] = "PASS"
          /\ nodes[i].scheduled_deprecation = <<report[1].finish>>
          /\ report[1].verdicts[j] = "FAIL"

\* what the nodes before node i in the ledger were paid, of the payments ps
PaidBefore(ps, i) == SumSeq(SubSeq(ps, 1, i - 1))

\* the load of node i when its minimum payment was made, and when its
\* avalanche payment was made, in the cycle that has just ended
LoadAtMinimum(i) == nodes[i].current_load + extra_paid[i] + min_paid[i]

LoadAtExtra(i) == nodes[i].current_load + extra_paid[i]

\* C15 as stated: every payment applied in a cycle, minimum or avalanche, is
\* at most the node's load at that moment and at most the capacity still
\* left in the cycle when it is made (looked at for capacities >= 0 only).
C15_PaymentsCappedByFunds ==
    (Started /\ cycle >= 1 /\ capacity_per_cycle >= 0) =>
        \A i \in Ledger :
            /\ min_paid[i] > 0 =>
                  min_paid[i] <= Min(LoadAtMinimum(i),
                                     capacity_per_cycle - PaidBefore(min_paid, i))
            /\ extra_paid[i] > 0 =>
                  extra_paid[i] <= Min(LoadAtExtra(i),
                                       after_min - PaidBefore(extra_paid, i))

\* C15 amended: an avalanche payment is at most the node's load and the
\* capacity still left when it is made; a minimum payment is at most the
\* node's load after accrual and its min_throughput, and is made in full
\* even when it is more than the capacity still left.
C15_PaymentsCapped ==
    (Started /\ cycle >= 1) =>
        \A i \in Ledger :
            /\ min_paid[i] >= 0
            /\ min_paid[i] <= Min(LoadAtMinimum(i), nodes[i].min_throughput)
            /\ (min_paid[i] > 0 /\ nodes[i].current_load + extra_paid[i] > 0) =>
                  min_paid[i] = nodes[i].min_throughput
            /\ extra_paid[i] >= 0
            /\ extra_paid[i] > 0 =>
                  extra_paid[i] <= Min(LoadAtExtra(i),
                                       after_min - PaidBefore(extra_paid, i))

\* a minimum payment larger than the capacity left when it was made
C15_Witness ==
    /\ Started
    /\ cycle >= 1
    /\ \E i \in Ledger :
          /\ min_paid[i] > 0
          /\ min_paid[i] > capacity_per_cycle - PaidBefore(min_paid, i)
          /\ capacity_per_cycle >= 0

\* C16: in a cycle remaining_capacity starts at the capacity and the minimum
\* payments come off it; it is negative only when the minimum payments alone
\* are more than the capacity.  The avalanche never makes it negative, pays
\* nothing when it is <= 0 after the minimum payments, and in total pays at
\* most max(0, capacity - minimum payments).
C16_RemainingCapacity ==
    (Started /\ cycle >= 1) =>
        /\ after_min = capacity_per_cycle - SumSeq(min_paid)
        /\ remaining_capacity = after_min - SumSeq(extra_paid)
        /\ remaining_capacity < 0 => SumSeq(min_paid) > capacity_per_cycle
        /\ after_min >= 0 => remaining_capacity >= 0
        /\ after_min <= 0 => (\A i \in Ledger : extra_paid[i] = 0)
        /\ \A i \in Ledger : extra_paid[i] >= 0
        /\ SumSeq(extra_paid) <= (IF after_min > 0 THEN after_min ELSE 0)

\* a cycle whose minimum payments overdraw the capacity, on a ledger that
\* still has a node the avalanche could pay
C16_Witness ==
    /\ Started
    /\ cycle >= 1
    /\ capacity_per_cycle > 0
    /\ remaining_capacity < 0
    /\ \E i \in Ledger : nodes[i].current_load > 0 /\ ExtraAllowed(nodes[i], cycle)

\* C17: a MONTHLY node is untouched by every odd cycle: no interest, no
\* minimum payment, no avalanche payment, and its load at the end of the
\* cycle is its load at the start.  In an even cycle it accrues its interest
\* and pays its minimum (when it owes something), and the avalanche reaches
\* it: it is left with a load only when no capacity is left.
C17_MonthlyCadence ==
    [][cycle' = cycle + 1 =>
         \A i \in Ledger :
            nodes[i].cycle_mode = "MONTHLY" =>
               IF cycle' % 2 = 1
               THEN /\ nodes'[i] = nodes[i]
                    /\ interest'[i] = 0
                    /\ min_paid'[i] = 0
                    /\ extra_paid'[i] = 0
               ELSE LET load == nodes[i].current_load
                        due == (load * nodes[i].overhead_factor) \div CyclesPerYear
                    IN /\ load > 0 =>
                             /\ interest'[i] = due
                             /\ min_paid'[i] = Min(load + due, nodes[i].min_throughput)
                       /\ nodes'[i].current_load > 0 => remaining_capacity' <= 0
                       /\ nodes'[i].current_load =
                             load + interest'[i] - min_paid'[i] - extra_paid'[i]]_vars

\* an odd cycle has passed over a MONTHLY node that owes, accrues and has a
\* minimum payment, and has left capacity unused
C17_Witness ==
    /\ Started
    /\ cycle % 2 = 1
    /\ remaining_capacity > 0
    /\ \E i \in Ledger :
          /\ nodes[i].cycle_mode = "MONTHLY"
          /\ nodes[i].current_load > 0
          /\ nodes[i].overhead_factor > 0
          /\ nodes[i].min_throughput > 0

\* C18: after k processed cycles the history holds k + 1 samples, the
\* aborting cycle's included: dates and total_load have the same length, the
\* dates increase strictly, the newest total is the sum of the loads at that
\* boundary, and the samples recorded earlier stay as they were recorded.
C18_HistoryShape ==
    /\ [](Started =>
            /\ Len(history.dates) = cycle + 1
            /\ Len(history.total_load) = cycle + 1
            /\ \A k \in 1..cycle : history.dates[k] < history.dates[k + 1]
            /\ history.total_load[cycle + 1] = SumSeq(Loads(nodes)))
    /\ [][/\ SubSeq(history'.dates, 1, Len(history.dates)) = history.dates
          /\ SubSeq(history'.total_load, 1, Len(history.total_load))
                = history.total_load]_vars

\* the history of an aborted run, whose last cycles did not move the total
C18_Witness ==
    /\ phase = "ABORTED"
    /\ Len(history.dates) = SafetyBound + 2
    /\ history.total_load[cycle + 1] = history.total_load[cycle]

\* C19: no step of run_simulation changes the ledger's length or order or a
\* node's id, overhead_factor, min_throughput, cycle_mode or
\* scheduled_deprecation: a node differs from what it was in its
\* current_load only.
C19_OnlyLoadsChange ==
    [][(phase = "LOADED" \/ phase = "RUNNING") =>
         /\ Len(nodes') = Len(nodes)
         /\ \A i \in Ledger :
               /\ nodes'[i].id = nodes[i].id
               /\ nodes'[i].overhead_factor = nodes[i].overhead_factor
               /\ nodes'[i].min_throughput = nodes[i].min_throughput
               /\ nodes'[i].cycle_mode = nodes[i].cycle_mode
               /\ nodes'[i].scheduled_deprecation = nodes[i].scheduled_deprecation
               /\ DOMAIN nodes'[i] = DOMAIN nodes[i]]_vars

\* a ledger of several nodes, put in another order than the file's by the
\* sort, whose loads the cycles have changed
C19_Witness ==
    /\ Started
    /\ cycle >= 2
    /\ Len(nodes) >= 2
    /\ nodes[1].id # 1
    /\ \A i \in Ledger : nodes[i].current_load # loaded[i]

\* C20: the clock moves exactly 15 days per processed cycle: at every
\* boundary the current date, which is the date of the newest sample, is
\* start_date + 15 * cycle, and the finish date handed to the report of a
\* COMPLETED run is start_date + 15 * the number of cycles (start_date itself
\* when no node had a load).
C20_ClockAdvance ==
    Started =>
        /\ current_date = start_date + DaysPerCycle * cycle
        /\ history.dates[Len(history.dates)] = current_date
        /\ phase = "COMPLETED" =>
              /\ Given(report)
              /\ report[1].finish = start_date + DaysPerCycle * cycle
              /\ (\A i \in 1..Len(loaded) : loaded[i] <= 0) =>
                    report[1].finish = start_date

\* a run of several cycles, started on the date the file gives, is reported
C20_Witness ==
    /\ phase = "COMPLETED"
    /\ cycle >= 2
    /\ start_date = GivenStart
    /\ Given(report)
    /\ report[1].finish > start_date

====
